---- MODULE Spec2Model ----
(***************************************************************************)
(* PDQ Connect Prometheus exporter (src/app.py).                           *)
(*                                                                         *)
(* The model covers the polling loop of __main__, the paginated fetch      *)
(* get_devices, the hardware projection collect_device_metrics and the     *)
(* software aggregation collect_software_metrics, together with the gauge  *)
(* values they publish.                                                    *)
(*                                                                         *)
(* JSON values are tagged records: null, str, num, list, dict.  A Python   *)
(* exception is modelled by the "raised" flag of the value an operation    *)
(* returns; the gauges it had set before raising stay set.                 *)
(***************************************************************************)
EXTENDS Integers, Sequences, FiniteSets, TLC

VARIABLES pc, page, devices, gauges, sw_stats, cycle, before, outcome,
          requests, responses

vars == <<pc, page, devices, gauges, sw_stats, cycle, before, outcome,
          requests, responses>>

(***************************************************************************)
(* Bounds of the model.                                                    *)
(***************************************************************************)
MaxCycles == 2
MaxFullPages == 1
MaxVersions == 3
MaxDevices == 2

(***************************************************************************)
(* JSON values as Python sees them after response.json().                  *)
(***************************************************************************)
Null == [type |-> "null"]
Str(s) == [type |-> "str", str |-> s]
Num(n) == [type |-> "num", num |-> n]
List(l) == [type |-> "list", items |-> l]
Dict(f) == [type |-> "dict", fields |-> f]

IsDict(v) == v.type = "dict"

\* dict.get(key, default) on a value known to be a dict
Get(obj, key, default) ==
    IF key \in DOMAIN obj.fields THEN obj.fields[key] ELSE default

\* Python truthiness of a JSON value (`if name and version`, `if active_directory`)
Truthy(v) ==
    CASE v.type = "null" -> FALSE
      [] v.type = "str"  -> v.str # ""
      [] v.type = "num"  -> v.num # 0
      [] v.type = "list" -> v.items # <<>>
      [] v.type = "dict" -> DOMAIN v.fields # {}

\* str(value) as prometheus_client applies it to a label value; the inputs
\* of the model put scalars only in label positions
LabelStr(v) ==
    CASE v.type = "str"  -> v.str
      [] v.type = "null" -> "None"
      [] v.type = "num"  -> ToString(v.num)

(***************************************************************************)
(* Version strings.  A version is a TLA+ string; Chars gives its           *)
(* characters and Ord their code points, which is all that                 *)
(* str.replace, str.split, str.isdigit, int() and string comparison read.  *)
(***************************************************************************)
Ord ==
    (" " :> 32) @@ ("-" :> 45) @@ ("." :> 46) @@
    ("0" :> 48) @@ ("1" :> 49) @@ ("2" :> 50) @@ ("3" :> 51) @@ ("5" :> 53) @@
    ("9" :> 57) @@ ("a" :> 97) @@ ("b" :> 98) @@ ("e" :> 101) @@ ("t" :> 116)

Chars ==
    ("" :> <<>>) @@
    ("9" :> <<"9">>) @@
    ("10" :> <<"1", "0">>) @@
    ("3" :> <<"3">>) @@
    ("1.9" :> <<"1", ".", "9">>) @@
    ("1.10" :> <<"1", ".", "1", "0">>) @@
    ("1.2" :> <<"1", ".", "2">>) @@
    ("1.0" :> <<"1", ".", "0">>) @@
    ("1.00" :> <<"1", ".", "0", "0">>) @@
    ("1 0" :> <<"1", " ", "0">>) @@
    ("9.5" :> <<"9", ".", "5">>) @@
    ("9.a" :> <<"9", ".", "a">>) @@
    ("beta" :> <<"b", "e", "t", "a">>) @@
    ("2021-10" :> <<"2", "0", "2", "1", "-", "1", "0">>)

Digits == {"0", "1", "2", "3", "5", "9"}

\* x.isdigit() for a token (a non-empty sequence of characters)
IsDigit(x) == x # <<>> /\ \A i \in 1..Len(x) : x[i] \in Digits

\* int(x) for an all-digit token
RECURSIVE IntOf(_)
IntOf(x) ==
    IF x = <<>> THEN 0
    ELSE 10 * IntOf(SubSeq(x, 1, Len(x) - 1)) + (Ord[x[Len(x)]] - Ord["0"])

\* v.replace('.', ' ')
Replace(cs) == [i \in 1..Len(cs) |-> IF cs[i] = "." THEN " " ELSE cs[i]]

\* str.split() with no argument: split on runs of whitespace, no empty tokens
RECURSIVE Split(_, _)
Split(cs, cur) ==
    IF cs = <<>> THEN (IF cur = <<>> THEN <<>> ELSE <<cur>>)
    ELSE IF Head(cs) = " "
         THEN (IF cur = <<>> THEN <<>> ELSE <<cur>>) \o Split(Tail(cs), <<>>)
         ELSE Split(Tail(cs), Append(cur, Head(cs)))

\* mutant of KeyToken: every token is kept as a string
KeyToken_NoInt(x) == [int |-> FALSE, s |-> x]

\* one element of the key list: int(x) if x.isdigit() else x
KeyToken(x) ==
    IF IsDigit(x) THEN [int |-> TRUE, n |-> IntOf(x)]
    ELSE [int |-> FALSE, s |-> x]

\* key=lambda v: [int(x) if x.isdigit() else x for x in v.replace('.', ' ').split()]
Key(v) ==
    LET toks == Split(Replace(Chars[v]), <<>>)
    IN  [i \in 1..Len(toks) |-> KeyToken(toks[i])]

\* a > b for two Python strings given as character sequences (code points)
RECURSIVE StrGt(_, _)
StrGt(a, b) ==
    IF a = <<>> THEN FALSE
    ELSE IF b = <<>> THEN TRUE
    ELSE IF Head(a) # Head(b) THEN Ord[Head(a)] > Ord[Head(b)]
    ELSE StrGt(Tail(a), Tail(b))

\* a > b for two key elements: "true", "false", or "TypeError" for int against str
TokenGt(a, b) ==
    IF a.int /\ b.int THEN (IF a.n > b.n THEN "true" ELSE "false")
    ELSE IF ~a.int /\ ~b.int THEN (IF StrGt(a.s, b.s) THEN "true" ELSE "false")
    ELSE "TypeError"

\* a > b for two Python lists: the first position where they differ decides,
\* else the longer list is the greater
RECURSIVE ListGt(_, _)
ListGt(a, b) ==
    IF a = <<>> THEN "false"
    ELSE IF b = <<>> THEN "true"
    ELSE IF Head(a) # Head(b) THEN TokenGt(Head(a), Head(b))
    ELSE ListGt(Tail(a), Tail(b))

\* max(keys, key=Key): the running maximum is replaced by an item whose key
\* is greater; a TypeError of a comparison ends the scan
RECURSIVE MaxByKey(_, _)
MaxByKey(keys, best) ==
    IF keys = <<>> THEN [raised |-> FALSE, v |-> best]
    ELSE LET c == ListGt(Key(Head(keys)), Key(best))
         IN  IF c = "TypeError" THEN [raised |-> TRUE, v |-> best]
             ELSE MaxByKey(Tail(keys), IF c = "true" THEN Head(keys) ELSE best)

\* max(keys): plain string maximum
RECURSIVE MaxPlain(_, _)
MaxPlain(keys, best) ==
    IF keys = <<>> THEN best
    ELSE MaxPlain(Tail(keys),
                  IF StrGt(Chars[Head(keys)], Chars[best]) THEN Head(keys) ELSE best)

\* try: max(versions.keys(), key=...) except Exception: max(versions.keys())
\* keys is the non-empty sequence of the dict's keys in insertion order
Latest(keys) ==
    LET r == MaxByKey(Tail(keys), Head(keys))
    IN  IF r.raised THEN MaxPlain(Tail(keys), Head(keys)) ELSE r.v

(***************************************************************************)
(* Gauges.  A labelled gauge is a function from the label combinations     *)
(* that were ever set to their last value; device_count has no labels.     *)
(***************************************************************************)
NoSeries == <<>>

\* device_count = Gauge(...) and the ten labelled gauges, before any set()
InitialGauges ==
    [device_count |-> 0,
     device_info |-> NoSeries, disk_info |-> NoSeries, driver_info |-> NoSeries,
     ad_info |-> NoSeries, custom_fields_info |-> NoSeries,
     software_total |-> NoSeries, software_updated |-> NoSeries,
     software_updated_percent |-> NoSeries,
     software_latest_version |-> NoSeries, software_version_count |-> NoSeries]

\* mutant of GaugeSet: the gauge forgets its other children when one is set
GaugeSet_Reset(series, labels, value) == [l \in {labels} |-> value]

\* gauge.labels(**labels).set(value): the child of that label combination
\* gets the value, every other child is left as it is
GaugeSet(series, labels, value) ==
    [l \in DOMAIN series \cup {labels} |-> IF l = labels THEN value ELSE series[l]]

\* a run of gauge.labels(l).set(value) over a set of label combinations
GaugeSetEach(series, labelSet, value) ==
    [l \in DOMAIN series \cup labelSet |-> IF l \in labelSet THEN value ELSE series[l]]

\* `for x in v: ... x.get(...)`: the items the loop body handles before the
\* loop ends or raises.  Iterating null or a number raises at once; a str or
\* dict yields str items, so the first x.get raises; a list raises at its
\* first item that is no dict.
Loop(v) ==
    CASE v.type = "list" ->
           LET bad == {i \in 1..Len(v.items) : ~IsDict(v.items[i])}
               stop == IF bad = {} THEN Len(v.items) + 1
                       ELSE CHOOSE i \in bad : \A j \in bad : i <= j
           IN  [items |-> SubSeq(v.items, 1, stop - 1), raised |-> bad # {}]
      [] v.type \in {"null", "num"} -> [items |-> <<>>, raised |-> TRUE]
      [] v.type \in {"str", "dict"} -> [items |-> <<>>, raised |-> Truthy(v)]

\* str(obj.get(key, default)) as a label value
Label(obj, key, default) == LabelStr(Get(obj, key, default))

Unknown == Str("unknown")

DeviceInfoLabels(device) ==
    [hostname        |-> Label(device, "hostname", Unknown),
     architecture    |-> Label(device, "architecture", Unknown),
     id              |-> Label(device, "id", Unknown),
     insertedAt      |-> Label(device, "insertedAt", Unknown),
     lastUser        |-> Label(device, "lastUser", Unknown),
     model           |-> Label(device, "model", Unknown),
     name            |-> Label(device, "name", Unknown),
     osVersion       |-> Label(device, "osVersion", Unknown),
     publicIpAddress |-> Label(device, "publicIpAddress", Unknown),
     serialNumber    |-> Label(device, "serialNumber", Unknown),
     servicePack     |-> Label(device, "servicePack", Unknown)]

DiskLabels(hostname, disk) ==
    [hostname     |-> hostname,
     disk_id      |-> Label(disk, "id", Unknown),
     model        |-> Label(disk, "model", Unknown),
     mediaType    |-> Label(disk, "mediaType", Unknown),
     totalSpaceKb |-> Label(disk, "totalSpaceKb", Num(0))]

DriverLabels(hostname, driver) ==
    [hostname  |-> hostname,
     driver_id |-> Label(driver, "id", Unknown),
     name      |-> Label(driver, "name", Unknown),
     version   |-> Label(driver, "version", Unknown),
     provider  |-> Label(driver, "provider", Unknown)]

AdLabels(hostname, active_directory) ==
    [hostname   |-> hostname,
     deviceName |-> Label(active_directory, "deviceName", Unknown)]

CustomFieldLabels(hostname, field) ==
    [hostname    |-> hostname,
     field_name  |-> Label(field, "name", Unknown),
     field_value |-> Label(field, "value", Unknown)]

\* the body of `for device in devices` in collect_device_metrics: the gauges
\* after it, and whether it raised
DeviceMetrics(g, device) ==
    LET hostname == Label(device, "hostname", Unknown)
        g1 == [g EXCEPT !.device_info = GaugeSet(@, DeviceInfoLabels(device), 1)]
        disks == Loop(Get(device, "disks", List(<<>>)))
        g2 == [g1 EXCEPT !.disk_info = GaugeSetEach(@,
                  {DiskLabels(hostname, disks.items[i]) : i \in 1..Len(disks.items)}, 1)]
        drivers == Loop(Get(device, "drivers", List(<<>>)))
        g3 == [g2 EXCEPT !.driver_info = GaugeSetEach(@,
                  {DriverLabels(hostname, drivers.items[i]) : i \in 1..Len(drivers.items)}, 1)]
        active_directory == Get(device, "activeDirectory", Dict(<<>>))
        g4 == IF Truthy(active_directory)
              THEN [g3 EXCEPT !.ad_info = GaugeSet(@, AdLabels(hostname, active_directory), 1)]
              ELSE g3
        fields == Loop(Get(device, "customFields", List(<<>>)))
        g5 == [g4 EXCEPT !.custom_fields_info = GaugeSetEach(@,
                  {CustomFieldLabels(hostname, fields.items[i]) : i \in 1..Len(fields.items)}, 1)]
    IN  IF ~IsDict(device) THEN [g |-> g, raised |-> TRUE]
        ELSE IF disks.raised THEN [g |-> g2, raised |-> TRUE]
        ELSE IF drivers.raised THEN [g |-> g3, raised |-> TRUE]
        ELSE IF Truthy(active_directory) /\ ~IsDict(active_directory)
             THEN [g |-> g3, raised |-> TRUE]
        ELSE [g |-> g5, raised |-> fields.raised]

\* `for device in devices`, stopping at the first body that raises.  The
\* list is walked in order, split in halves to keep the evaluation shallow.
RECURSIVE DeviceLoop(_, _)
DeviceLoop(g, devs) ==
    IF devs = <<>> THEN [g |-> g, raised |-> FALSE]
    ELSE IF Len(devs) = 1 THEN DeviceMetrics(g, devs[1])
    ELSE LET half == Len(devs) \div 2
             r == DeviceLoop(g, SubSeq(devs, 1, half))
         IN  IF r.raised THEN r
             ELSE DeviceLoop(r.g, SubSeq(devs, half + 1, Len(devs)))

\* collect_device_metrics(devices) run on gauges g
collect_device_metrics(g, devs) ==
    DeviceLoop([g EXCEPT !.device_count = Len(devs)], devs)

(***************************************************************************)
(* collect_software_metrics.  sw_stats, a defaultdict of defaultdicts, is  *)
(* the sequence of its items in insertion order, which is the order        *)
(* .items(), .keys() and max() read it in.                                 *)
(***************************************************************************)
Index(seq, key) ==
    IF \E i \in 1..Len(seq) : seq[i].key = key
    THEN CHOOSE i \in 1..Len(seq) : seq[i].key = key
    ELSE 0

\* mutant of CountUp: versions[version] = 1
CountUp_Assign(versions, version) ==
    LET i == Index(versions, version)
    IN  IF i = 0 THEN Append(versions, [key |-> version, count |-> 1])
        ELSE [versions EXCEPT ![i].count = 1]

\* versions[version] += 1 on a defaultdict(int)
CountUp(versions, version) ==
    LET i == Index(versions, version)
    IN  IF i = 0 THEN Append(versions, [key |-> version, count |-> 1])
        ELSE [versions EXCEPT ![i].count = @ + 1]

\* sw_stats[name][version] += 1
Increment(stats, name, version) ==
    LET i == Index(stats, name)
    IN  IF i = 0
        THEN Append(stats, [key |-> name, versions |-> CountUp(<<>>, version)])
        ELSE [stats EXCEPT ![i].versions = CountUp(@, version)]

\* the body of `for sw in ...`: name = sw.get('name'),
\* version = sw.get('versionRaw'), counted when both are truthy
RECURSIVE EntryLoop(_, _)
EntryLoop(stats, entries) ==
    IF entries = <<>> THEN stats
    ELSE LET sw == Head(entries)
             name == Get(sw, "name", Null)
             version == Get(sw, "versionRaw", Null)
         IN  EntryLoop(IF Truthy(name) /\ Truthy(version)
                       THEN Increment(stats, name.str, version.str)
                       ELSE stats,
                       Tail(entries))

\* lines 142-148: the table after the devices are read, or raised.  The
\* list is walked in order, split in halves to keep the evaluation shallow.
RECURSIVE Aggregate(_, _)
Aggregate(stats, devs) ==
    IF devs = <<>> THEN [sw_stats |-> stats, raised |-> FALSE]
    ELSE IF Len(devs) = 1
    THEN IF ~IsDict(devs[1]) THEN [sw_stats |-> stats, raised |-> TRUE]
         ELSE LET software == Loop(Get(devs[1], "software", List(<<>>)))
              IN  IF software.raised THEN [sw_stats |-> stats, raised |-> TRUE]
                  ELSE [sw_stats |-> EntryLoop(stats, software.items),
                        raised |-> FALSE]
    ELSE LET half == Len(devs) \div 2
             r == Aggregate(stats, SubSeq(devs, 1, half))
         IN  IF r.raised THEN r
             ELSE Aggregate(r.sw_stats, SubSeq(devs, half + 1, Len(devs)))

RECURSIVE Sum(_)
Sum(versions) ==
    IF versions = <<>> THEN 0 ELSE Head(versions).count + Sum(Tail(versions))

Keys(versions) == [i \in 1..Len(versions) |-> versions[i].key]

RECURSIVE Gcd(_, _)
Gcd(a, b) == IF b = 0 THEN a ELSE Gcd(b, a % b)

\* mutant of Percent: total / updated * 100
Percent_Inverted(updated, total) ==
    IF updated > 0
    THEN LET d == Gcd(total * 100, updated)
         IN  [num |-> (total * 100) \div d, den |-> updated \div d]
    ELSE [num |-> 0, den |-> 1]

\* updated / total * 100 if total > 0 else 0, as an exact fraction in lowest
\* terms (the float the code computes is this value rounded)
Percent(updated, total) ==
    IF total > 0
    THEN LET d == Gcd(updated * 100, total)
         IN  [num |-> (updated * 100) \div d, den |-> total \div d]
    ELSE [num |-> 0, den |-> 1]

\* lines 151-158 for one item of sw_stats
Stats(item) ==
    LET total == Sum(item.versions)
        latest == Latest(Keys(item.versions))
        updated == item.versions[Index(item.versions, latest)].count
    IN  [software |-> item.key, total |-> total, latest |-> latest,
         updated |-> updated, percent |-> Percent(updated, total)]

\* for ver, count in versions.items(): software_version_count...set(count)
RECURSIVE VersionCounts(_, _, _)
VersionCounts(series, sw, versions) ==
    IF versions = <<>> THEN series
    ELSE VersionCounts(
             GaugeSet(series, [software |-> sw, version |-> Head(versions).key],
                      Head(versions).count),
             sw, Tail(versions))

\* lines 161-166 for one item of sw_stats
Publish(g, item) ==
    LET a == Stats(item)
    IN  [g EXCEPT
          !.software_total = GaugeSet(@, [software |-> a.software], a.total),
          !.software_updated = GaugeSet(@, [software |-> a.software], a.updated),
          !.software_updated_percent =
              GaugeSet(@, [software |-> a.software], a.percent),
          !.software_latest_version =
              GaugeSet(@, [software |-> a.software, latest_version |-> a.latest], 1),
          !.software_version_count = VersionCounts(@, a.software, item.versions)]

RECURSIVE PublishLoop(_, _)
PublishLoop(g, stats) ==
    IF stats = <<>> THEN g ELSE PublishLoop(Publish(g, Head(stats)), Tail(stats))

\* collect_software_metrics(devices) run on gauges g
collect_software_metrics(g, devs) ==
    LET r == Aggregate(<<>>, devs)
    IN  IF r.raised THEN [g |-> g, raised |-> TRUE, sw_stats |-> <<>>]
        ELSE [g |-> PublishLoop(g, r.sw_stats), raised |-> FALSE,
              sw_stats |-> r.sw_stats]

(***************************************************************************)
(* get_devices: one pass of its `while True` body per upstream response.   *)
(* A response is a network failure, or an HTTP response with a status      *)
(* (ok or not) and a body that is JSON or not.                             *)
(***************************************************************************)
PageSize == 100

NetworkFailure == [kind |-> "network_failure"]
Http(ok, body) == [kind |-> "http", ok |-> ok, body |-> body]
NotJson == [json |-> FALSE]
Json(v) == [json |-> TRUE, value |-> v]

\* mutant of RequestRaises: no response.raise_for_status()
RequestRaises_NoStatusCheck(resp) ==
    \/ resp.kind = "network_failure"
    \/ ~resp.body.json
    \/ ~IsDict(resp.body.value)

\* requests.get raises on a network failure, raise_for_status() on a
\* non-success status, response.json() on a body that is not JSON, and
\* data.get on a JSON body that is no object
RequestRaises(resp) ==
    \/ resp.kind = "network_failure"
    \/ ~resp.ok
    \/ ~resp.body.json
    \/ ~IsDict(resp.body.value)

\* batch = data.get("data", [])
Batch(resp) == Get(resp.body.value, "data", List(<<>>))

\* mutant of RequestStep: the loop breaks on len(batch) <= pageSize
RequestStep_BreakOnFull(devs, p, resp) ==
    IF RequestRaises(resp)
    THEN [devices |-> devs, page |-> p, done |-> FALSE, raised |-> TRUE]
    ELSE LET batch == Batch(resp)
         IN  IF ~Truthy(batch)
             THEN [devices |-> devs, page |-> p, done |-> TRUE, raised |-> FALSE]
             ELSE IF batch.type = "num"
             THEN [devices |-> devs, page |-> p, done |-> FALSE, raised |-> TRUE]
             ELSE IF Len(batch.items) <= PageSize
             THEN [devices |-> devs \o batch.items, page |-> p,
                   done |-> TRUE, raised |-> FALSE]
             ELSE [devices |-> devs \o batch.items, page |-> p + 1,
                   done |-> FALSE, raised |-> FALSE]

\* lines 46-63 for one response: the locals after it, whether the loop
\* broke (get_devices returns) and whether it raised.  A truthy batch is a
\* list in the inputs of the model, except a number, which extend() rejects.
RequestStep(devs, p, resp) ==
    IF RequestRaises(resp)
    THEN [devices |-> devs, page |-> p, done |-> FALSE, raised |-> TRUE]
    ELSE LET batch == Batch(resp)
         IN  IF ~Truthy(batch)
             THEN [devices |-> devs, page |-> p, done |-> TRUE, raised |-> FALSE]
             ELSE IF batch.type = "num"
             THEN [devices |-> devs, page |-> p, done |-> FALSE, raised |-> TRUE]
             ELSE IF Len(batch.items) < PageSize
             THEN [devices |-> devs \o batch.items, page |-> p,
                   done |-> TRUE, raised |-> FALSE]
             ELSE [devices |-> devs \o batch.items, page |-> p + 1,
                   done |-> FALSE, raised |-> FALSE]

(***************************************************************************)
(* The polling loop of __main__.                                           *)
(*   pc        where the loop is: "loop" (top of while True),              *)
(*             "get_devices", "collect_device_metrics",                    *)
(*             "collect_software_metrics", "sleep"                         *)
(*   page, devices   locals of get_devices, then the list handed on        *)
(*   gauges    the values of the eleven gauges                             *)
(*   sw_stats  the table collect_software_metrics built last               *)
(* History of the current cycle, read by the properties only:              *)
(*   cycle     number of cycles begun                                      *)
(*   before    the gauges when the cycle began                             *)
(*   outcome   "running", "success", or the function that raised           *)
(*   requests  the page numbers requested, in order                        *)
(*   responses the responses received, in order                            *)
(***************************************************************************)
\* where the loop continues after `except Exception as e: print(...)`
AfterException == "sleep"

\* the first value of get_devices' page counter
FirstPage == 1

TypeOK ==
    /\ pc \in {"loop", "get_devices", "collect_device_metrics",
               "collect_software_metrics", "sleep"}
    /\ page \in Nat
    /\ cycle \in 0..(MaxCycles + 1)
    /\ outcome \in {"none", "running", "success", "get_devices",
                    "collect_device_metrics", "collect_software_metrics"}

Init ==
    /\ pc = "loop"
    /\ page = FirstPage
    /\ devices = <<>>
    /\ gauges = InitialGauges
    /\ sw_stats = <<>>
    /\ cycle = 0
    /\ before = InitialGauges
    /\ outcome = "none"
    /\ requests = <<>>
    /\ responses = <<>>

\* lines 177-180: a cycle begins and calls get_devices (lines 43-44)
BeginCycle ==
    /\ pc = "loop"
    /\ cycle < MaxCycles
    /\ pc' = "get_devices"
    /\ page' = FirstPage
    /\ devices' = <<>>
    /\ cycle' = cycle + 1
    /\ before' = gauges
    /\ outcome' = "running"
    /\ requests' = <<>>
    /\ responses' = <<>>
    /\ UNCHANGED <<gauges, sw_stats>>

\* lines 45-65: one request of get_devices and what it does with the response
RequestPage(resp) ==
    /\ pc = "get_devices"
    /\ LET r == RequestStep(devices, page, resp)
       IN  /\ devices' = r.devices
           /\ page' = r.page
           /\ pc' = IF r.raised THEN AfterException
                    ELSE IF r.done THEN "collect_device_metrics"
                    ELSE "get_devices"
           /\ outcome' = IF r.raised THEN "get_devices" ELSE outcome
    /\ requests' = Append(requests, page)
    /\ responses' = Append(responses, resp)
    /\ UNCHANGED <<gauges, sw_stats, cycle, before>>

\* line 181, and lines 184-185 when it raises
CollectDeviceMetrics ==
    /\ pc = "collect_device_metrics"
    /\ LET r == collect_device_metrics(gauges, devices)
       IN  /\ gauges' = r.g
           /\ pc' = IF r.raised THEN AfterException ELSE "collect_software_metrics"
           /\ outcome' = IF r.raised THEN "collect_device_metrics" ELSE outcome
    /\ UNCHANGED <<page, devices, sw_stats, cycle, before, requests, responses>>

\* lines 182-183, and lines 184-185 when it raises
CollectSoftwareMetrics ==
    /\ pc = "collect_software_metrics"
    /\ LET r == collect_software_metrics(gauges, devices)
       IN  /\ gauges' = r.g
           /\ sw_stats' = r.sw_stats
           /\ pc' = IF r.raised THEN AfterException ELSE "sleep"
           /\ outcome' = IF r.raised THEN "collect_software_metrics" ELSE "success"
    /\ UNCHANGED <<page, devices, cycle, before, requests, responses>>

\* line 186: time.sleep(sync_interval) returns
Sleep ==
    /\ pc = "sleep"
    /\ pc' = "loop"
    /\ UNCHANGED <<page, devices, gauges, sw_stats, cycle, before, outcome,
                   requests, responses>>

(***************************************************************************)
(* Inputs.  Upstream inventories smaller than a page, with the shapes of   *)
(* record the API can return: fields missing, null, or lists.              *)
(***************************************************************************)
Sw(name, version) == Dict([name |-> Str(name), versionRaw |-> Str(version)])

Pc1Old ==
    Dict([hostname |-> Str("pc1"), name |-> Str("PC-1"),
          software |-> List(<<Sw("app", "9"), Sw("app", "10")>>)])
Pc1New ==
    Dict([hostname |-> Str("pc1"), name |-> Str("PC-1"),
          software |-> List(<<Sw("app", "9")>>)])
Pc2 ==
    Dict([hostname |-> Str("pc2"),
          disks |-> List(<<Dict([id |-> Str("disk0"), totalSpaceKb |-> Num(500)])>>),
          drivers |-> List(<<Dict([name |-> Str("nic")])>>),
          activeDirectory |-> Dict([deviceName |-> Str("PC2")]),
          customFields |-> List(<<Dict([name |-> Str("site"), value |-> Str("hq")])>>),
          software |-> List(<<Sw("app", "10"), Sw("tool", "1.2"),
                              Dict([name |-> Str("tool")])>>)])
Pc3NullDisks ==
    Dict([hostname |-> Str("pc3"), disks |-> Null,
          software |-> List(<<Sw("app", "10")>>)])
Pc4NullSoftware ==
    Dict([hostname |-> Str("pc4"), software |-> Null])
Pc5BadDisk ==
    Dict([hostname |-> Str("pc5"),
          disks |-> List(<<Dict([id |-> Str("disk0")]), Str("disk1")>>)])
NullHostname ==
    Dict([hostname |-> Null, activeDirectory |-> Null])

Inventories ==
    {<<>>, <<Pc1Old>>, <<Pc1New>>, <<Pc1Old, Pc2>>, <<Pc2>>, <<NullHostname>>,
     <<Pc2, Pc3NullDisks, Pc1Old>>, <<Pc1New, Pc4NullSoftware>>,
     <<Pc5BadDisk, Pc2>>}

\* responses that make get_devices raise, and bodies without a usable "data"
FailingResponses ==
    {NetworkFailure,
     Http(FALSE, Json(Dict([error |-> Str("unauthorized")]))),
     Http(TRUE, NotJson),
     Http(TRUE, Json(List(<<>>)))}

NoDataResponses ==
    {Http(TRUE, Json(Dict([error |-> Str("unauthorized")]))),
     Http(TRUE, Json(Dict([data |-> Null])))}

Page(devs) == Http(TRUE, Json(Dict([data |-> List(devs)])))

SmallResponses ==
    FailingResponses \cup NoDataResponses \cup {Page(devs) : devs \in Inventories}

\* upstream inventories of full pages: PageSize records of one device
Plain == Dict([hostname |-> Str("pc1"), software |-> List(<<Sw("app", "9")>>)])
Other == Dict([hostname |-> Str("pc2"), software |-> List(<<Sw("app", "10")>>)])

FullPage == Page([i \in 1..PageSize |-> Plain])

PagedResponses ==
    FailingResponses \cup NoDataResponses \cup
    {FullPage, Page([i \in 1..(PageSize - 1) |-> Other]), Page(<<Other>>),
     Page(<<>>)}

\* inputs of collect_software_metrics alone
Versions == DOMAIN Chars \ {""}

VersionInputs ==
    {<<Dict([software |-> List([i \in 1..Len(vs) |-> Sw("app", vs[i])])])>> :
        vs \in UNION {[1..n -> Versions] : n \in 1..MaxVersions}}

CountDevices ==
    {Dict(<<>>),
     Dict([software |-> List(<<>>)]),
     Dict([software |-> List(<<Sw("app", "9"), Sw("tool", "9"), Sw("app", "9")>>)]),
     Dict([software |-> List(<<Dict([name |-> Str("app")]), Sw("app", "10")>>)]),
     Dict([software |-> List(<<Dict([versionRaw |-> Str("9")]), Sw("App", "9")>>)]),
     Dict([software |-> List(<<Sw("app", ""), Sw("", "9"),
                               Dict([name |-> Null, versionRaw |-> Str("9")]),
                               Dict([name |-> Str("tool"), versionRaw |-> Null])>>)])}

CountInputs == UNION {[1..n -> CountDevices] : n \in 0..MaxDevices}

(***************************************************************************)
(* Specifications.                                                         *)
(***************************************************************************)
\* the polling loop over inventories smaller than a page
Next ==
    \/ BeginCycle
    \/ \E resp \in SmallResponses : RequestPage(resp)
    \/ CollectDeviceMetrics
    \/ CollectSoftwareMetrics
    \/ Sleep

Spec == Init /\ [][Next]_vars

\* the polling loop over inventories of full pages
IsFull(resp) == resp = FullPage

NextPaging ==
    \/ BeginCycle
    \/ \E resp \in PagedResponses :
          /\ IsFull(resp) => page <= MaxFullPages
          /\ RequestPage(resp)
    \/ CollectDeviceMetrics
    \/ CollectSoftwareMetrics
    \/ Sleep

SpecPaging == Init /\ [][NextPaging]_vars

\* collect_software_metrics applied to one device list
InitAggregate ==
    /\ pc = "collect_software_metrics"
    /\ page = FirstPage
    /\ devices \in VersionInputs \cup CountInputs
    /\ gauges = InitialGauges
    /\ sw_stats = <<>>
    /\ cycle = 1
    /\ before = InitialGauges
    /\ outcome = "running"
    /\ requests = <<>>
    /\ responses = <<>>

NextAggregate == CollectSoftwareMetrics

SpecAggregate == InitAggregate /\ [][NextAggregate]_vars

(***************************************************************************)
(* What the properties read off a device list, computed from the records   *)
(* directly and not through collect_software_metrics.                      *)
(***************************************************************************)
\* the software entries of a device list, as (device index, entry index)
EntriesOf(devs) ==
    {e \in UNION {{<<d, i>> : i \in 1..Len(Get(devs[d], "software", List(<<>>)).items)} :
                    d \in {d \in 1..Len(devs) :
                             Get(devs[d], "software", List(<<>>)).type = "list"}} :
        IsDict(devs[e[1]].fields["software"].items[e[2]])}

EntryAt(devs, e) == devs[e[1]].fields["software"].items[e[2]].fields

\* the field is there and is not null
Present(entry, key) == key \in DOMAIN entry /\ entry[key].type # "null"

\* the field is there and is a non-empty string
NonEmpty(entry, key) ==
    key \in DOMAIN entry /\ entry[key].type = "str" /\ entry[key].str # ""

\* entries that carry both fields and the given name
PresentEntries(devs, n) ==
    {e \in EntriesOf(devs) :
        /\ Present(EntryAt(devs, e), "name")
        /\ Present(EntryAt(devs, e), "versionRaw")
        /\ EntryAt(devs, e)["name"] = Str(n)}

\* entries whose two fields are non-empty strings, with the given name
CountedEntries(devs, n) ==
    {e \in EntriesOf(devs) :
        /\ NonEmpty(EntryAt(devs, e), "name")
        /\ NonEmpty(EntryAt(devs, e), "versionRaw")
        /\ EntryAt(devs, e)["name"] = Str(n)}

ObservedVersions(devs, n) ==
    {EntryAt(devs, e)["versionRaw"].str : e \in CountedEntries(devs, n)}

InstallsOf(devs, n, v) ==
    {e \in CountedEntries(devs, n) : EntryAt(devs, e)["versionRaw"] = Str(v)}

Names == {"app", "App", "tool", ""}

\* the latest_version labels exposed for a software name
LatestMarkers(g, n) ==
    {l.latest_version : l \in {m \in DOMAIN g.software_latest_version : m.software = n}}

\* collect_software_metrics returned normally in this state
Collected == pc = "sleep" /\ outcome = "success"

Orderings(seq) ==
    {[i \in 1..Len(seq) |-> seq[p[i]]] :
        p \in {q \in [1..Len(seq) -> 1..Len(seq)] :
                 \A i, j \in 1..Len(seq) : q[i] = q[j] => i = j}}

\* the device list with the entries of its first device reordered
Reordered(devs) ==
    IF devs # <<>> /\ Get(devs[1], "software", Null).type = "list"
    THEN {[devs EXCEPT ![1] = Dict([devs[1].fields EXCEPT
                                       !["software"] = List(perm)])] :
             perm \in Orderings(devs[1].fields["software"].items)}
    ELSE {devs}

\* C2: the latest version picked for a software name does not depend on the
\* order in which the versions were first observed: every reordering of the
\* same entries exposes the same latest_version labels.
C2_LatestOrderIndependent ==
    Collected =>
        \A other \in Reordered(devices) : \A n \in Names :
            LatestMarkers(collect_software_metrics(InitialGauges, other).g, n)
                = LatestMarkers(gauges, n)

\* the order of the claim on key lists: integers numerically, strings by code
\* point, an integer below a string, a proper prefix below its extensions
ClaimedTokenGt(a, b) ==
    IF a.int /\ b.int THEN a.n > b.n
    ELSE IF ~a.int /\ ~b.int THEN StrGt(a.s, b.s)
    ELSE ~a.int

RECURSIVE ClaimedGt(_, _)
ClaimedGt(a, b) ==
    IF a = <<>> THEN FALSE
    ELSE IF b = <<>> THEN TRUE
    ELSE IF Head(a) # Head(b) THEN ClaimedTokenGt(Head(a), Head(b))
    ELSE ClaimedGt(Tail(a), Tail(b))

\* C3: the latest version exposed for a software name is maximal among the
\* versions observed for it under the token-wise order with integers below
\* strings; {"1.2", "beta"} yields "beta".
C3_LatestIsTokenwiseMax ==
    Collected =>
        \A n \in Names : \A latest \in LatestMarkers(gauges, n) :
            /\ \A v \in ObservedVersions(devices, n) :
                  ~ClaimedGt(Key(v), Key(latest))
            /\ ObservedVersions(devices, n) = {"1.2", "beta"} => latest = "beta"

\* the integer sequence of a version made of digits and dots
RECURSIVE Numbers(_, _)
Numbers(cs, cur) ==
    IF cs = <<>> THEN (IF cur = <<>> THEN <<>> ELSE <<IntOf(cur)>>)
    ELSE IF Head(cs) = "."
         THEN (IF cur = <<>> THEN <<>> ELSE <<IntOf(cur)>>) \o Numbers(Tail(cs), <<>>)
         ELSE Numbers(Tail(cs), Append(cur, Head(cs)))

RECURSIVE NumbersGt(_, _)
NumbersGt(a, b) ==
    IF a = <<>> THEN FALSE
    ELSE IF b = <<>> THEN TRUE
    ELSE IF Head(a) # Head(b) THEN Head(a) > Head(b)
    ELSE NumbersGt(Tail(a), Tail(b))

AllNumeric(vs) ==
    \A v \in vs : \A i \in 1..Len(Chars[v]) : Chars[v][i] \in Digits \cup {"."}

\* C4: when every version observed for a name is made of all-digit tokens
\* separated by dots, the latest version is a maximum under numeric
\* element-wise comparison: {"9", "10"} yields "10", {"1.9", "1.10"} "1.10".
C4_NumericMax ==
    Collected =>
        \A n \in Names :
            LET vs == ObservedVersions(devices, n)
            IN  (vs # {} /\ AllNumeric(vs)) =>
                  /\ Cardinality(LatestMarkers(gauges, n)) = 1
                  /\ \A latest \in LatestMarkers(gauges, n) :
                        /\ latest \in vs
                        /\ \A v \in vs :
                              ~NumbersGt(Numbers(Chars[v], <<>>),
                                         Numbers(Chars[latest], <<>>))
                        /\ vs = {"9", "10"} => latest = "10"
                        /\ vs = {"1.9", "1.10"} => latest = "1.10"

C4_Witness ==
    /\ Collected
    /\ ObservedVersions(devices, "app") = {"9", "10"}
    /\ LatestMarkers(gauges, "app") = {"10"}
    /\ devices[1].fields["software"].items[1] = Sw("app", "9")

C6_AggregateInvariants ==
    Collected =>
        \A n \in Names :
            LET vs == ObservedVersions(devices, n)
                key == [software |-> n]
            IN  vs # {} =>
                  /\ Cardinality(LatestMarkers(gauges, n)) = 1
                  /\ LatestMarkers(gauges, n) \subseteq vs
                  /\ \A latest \in LatestMarkers(gauges, n) :
                        /\ [software |-> n, version |-> latest]
                              \in DOMAIN gauges.software_version_count
                        /\ gauges.software_updated[key]
                              = Cardinality(InstallsOf(devices, n, latest))
                  /\ 1 <= gauges.software_updated[key]
                  /\ gauges.software_updated[key] <= gauges.software_total[key]
                  /\ LET percent == gauges.software_updated_percent[key]
                     IN  /\ percent.den > 0
                         /\ 0 <= percent.num
                         /\ percent.num <= 100 * percent.den
                         /\ percent.num * gauges.software_total[key]
                               = 100 * gauges.software_updated[key] * percent.den
                         /\ (percent.num = 100 * percent.den) <=>
                               (gauges.software_updated[key]
                                   = gauges.software_total[key])
                  /\ Cardinality(vs) = 1 =>
                        gauges.software_updated_percent[key] = [num |-> 100, den |-> 1]

C6_Witness ==
    /\ Collected
    /\ gauges.software_total = ([software |-> "app"] :> 3)
    /\ gauges.software_updated = ([software |-> "app"] :> 2)
    /\ gauges.software_updated_percent = ([software |-> "app"] :> [num |-> 200, den |-> 3])
    /\ LatestMarkers(gauges, "app") = {"1.10"}

(***************************************************************************)
(* The polling loop.                                                       *)
(***************************************************************************)
Last(seq) == seq[Len(seq)]

\* the response is a network failure, a non-success status, or a body that
\* is not a JSON object
FetchFailed(resp) ==
    \/ resp.kind = "network_failure"
    \/ ~resp.ok
    \/ ~resp.body.json
    \/ resp.body.value.type # "dict"

\* the records a response delivers
Records(resp) ==
    IF /\ ~FetchFailed(resp)
       /\ "data" \in DOMAIN resp.body.value.fields
       /\ resp.body.value.fields["data"].type = "list"
    THEN resp.body.value.fields["data"].items
    ELSE <<>>

RECURSIVE Concatenation(_)
Concatenation(resps) ==
    IF resps = <<>> THEN <<>>
    ELSE Records(Head(resps)) \o Concatenation(Tail(resps))

\* C1: a cycle whose fetch fails publishes nothing, the loop goes on to its
\* sleep, and the next cycle starts a fresh fetch whose first request is
\* page 1.
C1_FetchFailurePublishesNothing ==
    /\ []((responses # <<>> /\ FetchFailed(Last(responses))) =>
             (gauges = before /\ pc \in {"sleep", "loop"}))
    /\ [][(pc = "loop" /\ pc' # "loop") =>
             (pc' = "get_devices" /\ devices' = <<>> /\ requests' = <<>>)]_vars
    /\ [][(requests = <<>> /\ requests' # <<>>) => requests' = <<1>>]_vars

C1_Witness ==
    /\ cycle = 2
    /\ pc = "sleep"
    /\ Len(requests) = 2
    /\ FetchFailed(Last(responses))
    /\ gauges.device_count > 0
    /\ gauges = before

\* C7 as stated: once get_devices has returned, a malformed field of a
\* device record never aborts the cycle, and every device and every software
\* aggregate of the cycle is published.
C7_FieldErrorsNeverAbort ==
    (pc \in {"sleep", "loop"} /\ outcome \notin {"none", "get_devices"}) =>
        /\ outcome = "success"
        /\ \A i \in 1..Len(devices) :
              DeviceInfoLabels(devices[i]) \in DOMAIN gauges.device_info
        /\ \A n \in Names :
              CountedEntries(devices, n) # {} =>
                  [software |-> n] \in DOMAIN gauges.software_total

LabelledGauges ==
    {"device_info", "disk_info", "driver_info", "ad_info", "custom_fields_info",
     "software_total", "software_updated", "software_updated_percent",
     "software_latest_version", "software_version_count"}

\* the cycle's devices have an install that this label combination names
ProducedNow(gauge, l) ==
    CASE gauge \in {"software_total", "software_updated", "software_updated_percent"} ->
           CountedEntries(devices, l.software) # {}
      [] gauge = "software_version_count" ->
           InstallsOf(devices, l.software, l.version) # {}
      [] OTHER -> FALSE

\* C8: a label combination once published stays exposed, and keeps its
\* value in every step unless the cycle's devices produce that combination;
\* a successful cycle sets the total of every name and the count of every
\* (software, version) pair it observed.
C8_NoExpiry ==
    [][/\ \A gauge \in LabelledGauges : \A l \in DOMAIN gauges[gauge] :
             /\ l \in DOMAIN gauges'[gauge]
             /\ ProducedNow(gauge, l) \/ gauges'[gauge][l] = gauges[gauge][l]
       /\ (outcome = "running" /\ outcome' = "success") =>
             \A n \in Names : \A v \in ObservedVersions(devices, n) :
                /\ [software |-> n, version |-> v]
                      \in DOMAIN gauges'.software_version_count
                /\ gauges'.software_version_count[[software |-> n, version |-> v]]
                      = Cardinality(InstallsOf(devices, n, v))
                /\ [software |-> n] \in DOMAIN gauges'.software_total
                /\ gauges'.software_total[[software |-> n]]
                      = Cardinality(CountedEntries(devices, n))]_vars

C8_Witness ==
    /\ Collected
    /\ cycle = 2
    /\ ObservedVersions(devices, "app") = {"9"}
    /\ LatestMarkers(gauges, "app") = {"9", "10"}
    /\ gauges.software_version_count[[software |-> "app", version |-> "10"]] = 1
    /\ gauges.software_total[[software |-> "app"]] = 1

\* C9 as stated: a cycle that raised, in whichever function, left every gauge
\* as it was when the cycle began, and the loop goes on.
C9_ErrorLeavesGaugesUntouched ==
    outcome \in {"get_devices", "collect_device_metrics", "collect_software_metrics"} =>
        (gauges = before /\ pc \in {"sleep", "loop"})

\* C10: pages are requested as 1, 2, 3, ...; no response before the last is
\* short, empty or failed; get_devices is still running exactly when the last
\* response was a full page; and what it returns is the concatenation, in
\* page order, of the records received.
C10_Pagination ==
    /\ Len(requests) = Len(responses)
    /\ \A i \in 1..Len(requests) : requests[i] = i
    /\ \A i \in 1..(Len(responses) - 1) :
          ~FetchFailed(responses[i]) /\ Len(Records(responses[i])) = PageSize
    /\ responses # <<>> =>
          /\ (pc = "get_devices") <=>
                (~FetchFailed(Last(responses))
                    /\ Len(Records(Last(responses))) >= PageSize)
          /\ (pc # "get_devices" /\ ~FetchFailed(Last(responses))) =>
                devices = Concatenation(responses)

C10_Witness ==
    /\ pc = "collect_device_metrics"
    /\ requests = <<1, 2>>
    /\ Len(devices) = 2 * PageSize - 1
    /\ devices[PageSize] = Plain
    /\ devices[PageSize + 1] = Other
====
